---- MODULE Spec2Model ----
(***************************************************************************)
(* The 15-puzzle of src/main.cpp: the board helpers, the solvability       *)
(* test, the two shuffles, Puzzle::reducer and Store::send with the        *)
(* effect runner of main (Spec); main's frame loop, input by input         *)
(* (MainSpec); and the loop of shuffledSolvable, turn by turn (LoopSpec).  *)
(*                                                                         *)
(* A label (std::string) is the sequence of its decimal digits; the empty  *)
(* string is <<>>.  A board (std::vector<std::string>) is a function on    *)
(* the 0-based indices of the code.  std::optional<double> is <<>> for     *)
(* nullopt and <<t>> for a held value.                                     *)
(***************************************************************************)
EXTENDS Integers, Sequences, FiniteSets, TLC

\* ------------------------------------------------------------------ bounds

\* std::shuffle draws only among the permutations of the ShuffleWindow cells
\* nearest to the last cell.
ShuffleWindow == 3
\* shuffledSolvable() is followed through at most this many turns of its loop.
MaxShuffleIters == 2
\* Board-changing moves that are followed after each shuffle.
MaxMoves == 2
\* GetTime() returns one of 0 .. MaxTime.
MaxTime == 1

\* ------------------------------------------------------------------ Config

grid == 4
tileCount == grid * grid
emptyIndex == tileCount - 1

\* What main subtracts from GetTime() for the first start time.
InitTimeOffset == 10000

\* The Move indices tried: every cell, one below the range and one above it.
MoveIndexes == -1 .. tileCount
Times == 0 .. MaxTime

\* ------------------------------------------------------------------ strings

\* std::to_string of a non-negative int.
RECURSIVE to_string(_)
to_string(n) ==
  IF n < 10 THEN <<n>> ELSE to_string(n \div 10) \o <<n % 10>>

\* std::stoi of a string of digits.
RECURSIVE stoi(_)
stoi(s) ==
  IF Len(s) = 0 THEN 0
  ELSE 10 * stoi(SubSeq(s, 1, Len(s) - 1)) + s[Len(s)]

\* std::string::empty
empty(t) == Len(t) = 0

\* ------------------------------------------------------------------ board

abs(x) == IF x < 0 THEN -x ELSE x

\* int division and remainder of C++ (truncation toward zero).
indexRow(i) == IF i >= 0 THEN i \div grid ELSE -((-i) \div grid)
indexCol(i) == IF i >= 0 THEN i % grid ELSE -((-i) % grid)

\* Mutant of adjacent: the diagonal cells count as neighbours too.
adjacentDiagonal(i, j) ==
  /\ abs(indexRow(i) - indexRow(j)) <= 1
  /\ abs(indexCol(i) - indexCol(j)) <= 1
  /\ i # j

\* Mutant of adjacent: the differences are taken without abs.
adjacentOneWay(i, j) ==
  \/ indexRow(i) = indexRow(j) /\ indexCol(i) - indexCol(j) = 1
  \/ indexCol(i) = indexCol(j) /\ indexRow(i) - indexRow(j) = 1

\* Mutant of adjacent: the index distance alone, so a row's last cell and the
\* next row's first count as neighbours.
adjacentWraps(i, j) == abs(i - j) = 1 \/ abs(i - j) = grid

adjacent(i, j) ==
  LET r1 == indexRow(i)
      c1 == indexCol(i)
      r2 == indexRow(j)
      c2 == indexCol(j)
  IN  (r1 = r2 /\ abs(c1 - c2) = 1) \/ (c1 = c2 /\ abs(r1 - r2) = 1)

size(tiles) == Cardinality(DOMAIN tiles)

Min(S) == CHOOSE x \in S : \A y \in S : x <= y
Max(S) == CHOOSE x \in S : \A y \in S : x >= y

findEmpty(tiles) ==
  LET found == {i \in DOMAIN tiles : empty(tiles[i])}
  IN  IF found # {} THEN Min(found) ELSE -1

\* Mutant of isSolved: cell i is compared with to_string(i).
isSolvedOffByOne(tiles) ==
  /\ \A i \in 0 .. tileCount - 2 : tiles[i] = to_string(i)
  /\ empty(tiles[tileCount - 1])

isSolved(tiles) ==
  /\ \A i \in 0 .. tileCount - 2 : tiles[i] = to_string(i + 1)
  /\ empty(tiles[tileCount - 1])

inversionCount(values) ==
  Cardinality({p \in (1 .. Len(values)) \X (1 .. Len(values)) :
                 p[1] < p[2] /\ values[p[1]] > values[p[2]]})

\* The vector vals of isSolvable: the numbers of the non-empty labels, in order.
RECURSIVE valsUpTo(_, _)
valsUpTo(labels, n) ==
  IF n = 0 THEN <<>>
  ELSE IF empty(labels[n - 1]) THEN valsUpTo(labels, n - 1)
       ELSE Append(valsUpTo(labels, n - 1), stoi(labels[n - 1]))

\* Mutant of isSolvable: the rule of the odd grid whatever the grid.
isSolvableOddGridRule(labels) ==
  inversionCount(valsUpTo(labels, tileCount)) % 2 = 0

isSolvable(labels) ==
  LET empties == {i \in 0 .. tileCount - 1 : empty(labels[i])}
      emptyRowFromBottom ==
        IF empties = {} THEN 0 ELSE grid - indexRow(Max(empties))
      inv == inversionCount(valsUpTo(labels, tileCount))
  IN  IF grid % 2 = 1 THEN (inv % 2) = 0
      ELSE IF (emptyRowFromBottom % 2) = 0 THEN (inv % 2) = 1
           ELSE (inv % 2) = 0

solvedTiles ==
  [i \in 0 .. tileCount - 1 |->
     IF indexRow(i) = grid - 1 /\ indexCol(i) = grid - 1
     THEN <<>> ELSE to_string(indexRow(i) * grid + indexCol(i) + 1)]

\* Mutant of swap: the second assignment of the exchange is lost.
swapCopies(tiles, i, j) == [tiles EXCEPT ![i] = tiles[j]]

\* std::swap of two cells.
swap(tiles, i, j) == [tiles EXCEPT ![i] = tiles[j], ![j] = tiles[i]]

\* ------------------------------------------------------------------ shuffles

\* The grid distance of a cell from the last cell.
fromLast(i) ==
  (grid - 1 - indexRow(i)) + (grid - 1 - indexCol(i))

\* The cells std::shuffle may permute within the bound: the ShuffleWindow cells
\* nearest to the last cell, the lower index first among equally near ones.
Window ==
  {i \in 0 .. tileCount - 1 :
     Cardinality({j \in 0 .. tileCount - 1 :
                    \/ fromLast(j) < fromLast(i)
                    \/ fromLast(j) = fromLast(i) /\ j < i}) < ShuffleWindow}

WindowPerms ==
  {f \in [Window -> Window] : \A a, b \in Window : a # b => f[a] # f[b]}

\* shuffleLabels: every arrangement std::shuffle can leave in labels.
shuffleLabels(labels) ==
  {[i \in 0 .. tileCount - 1 |->
      IF i \in Window THEN labels[p[i]] ELSE labels[i]] : p \in WindowPerms}

\* Mutant of shuffleAgain: && for ||.
shuffleAgainAnd(labels) == ~isSolvable(labels) /\ isSolved(labels)

\* The condition of the do-while of shuffledSolvable: shuffle again.
shuffleAgain(labels) == ~isSolvable(labels) \/ isSolved(labels)

\* The values labels can hold after the n-th call of shuffleLabels in the loop.
RECURSIVE labelsAfter(_)
labelsAfter(n) ==
  IF n = 1 THEN shuffleLabels(solvedTiles)
  ELSE UNION {shuffleLabels(l) : l \in {m \in labelsAfter(n - 1) : shuffleAgain(m)}}

\* shuffledSolvable(): the boards the loop can return within MaxShuffleIters turns.
shuffledSolvable ==
  UNION {{l \in labelsAfter(n) : ~shuffleAgain(l)} : n \in 1 .. MaxShuffleIters}

\* Mutant of movesUpTo: every other cell is a candidate, adjacent or not.
RECURSIVE movesAnyCell(_, _)
movesAnyCell(e, n) ==
  IF n = 0 THEN <<>>
  ELSE IF n - 1 # e THEN Append(movesAnyCell(e, n - 1), n - 1)
       ELSE movesAnyCell(e, n - 1)

\* The vector moves of shuffledNearWin: the cells adjacent to empty, ascending.
RECURSIVE movesUpTo(_, _)
movesUpTo(e, n) ==
  IF n = 0 THEN <<>>
  ELSE IF adjacent(n - 1, e) THEN Append(movesUpTo(e, n - 1), n - 1)
       ELSE movesUpTo(e, n - 1)

\* shuffledNearWin(): one board per value the uniform distribution can draw.
shuffledNearWin ==
  LET tiles == solvedTiles
      e     == findEmpty(tiles)
      moves == movesUpTo(e, size(tiles))
  IN  IF Len(moves) # 0
      THEN {swap(tiles, moves[d + 1], e) : d \in 0 .. Len(moves) - 1}
      ELSE {tiles}

\* ------------------------------------------------------------------ Puzzle

NoTime == <<>>
has_value(o) == Len(o) # 0

Shuffle == [type |-> "Shuffle"]
Move(i) == [type |-> "Move", index |-> i]
Restart == [type |-> "Restart"]
SetStartTime(t) == [type |-> "SetStartTime", time |-> t]
NearWinShuffle == [type |-> "NearWinShuffle"]
Start == [type |-> "Start"]

StartTimer == "StartTimer"

\* The guard of the Move branch of the reducer.
canMove(tiles, index) ==
  LET e == findEmpty(tiles)
  IN  e # -1 /\ index >= 0 /\ index < size(tiles) /\ adjacent(index, e)

\* Mutant of moveTiles: the exchange is made with Config::emptyIndex, the cell
\* that is empty on the solved board, not with the cell findEmpty returned.
moveTilesWithLastCell(tiles, index) ==
  IF canMove(tiles, index) THEN swap(tiles, index, emptyIndex) ELSE tiles

\* The Move branch: the tiles of ns.
moveTiles(tiles, index) ==
  IF canMove(tiles, index) THEN swap(tiles, index, findEmpty(tiles)) ELSE tiles

\* Mutant of visit: Shuffle and NearWinShuffle reset the start time as Restart does.
visitShuffleClearsTime(s, a, drawn) ==
  CASE a.type = "Start" -> s
    [] a.type = "Move" -> [s EXCEPT !.tiles = moveTiles(s.tiles, a.index)]
    [] a.type \in {"Shuffle", "Restart", "NearWinShuffle"} ->
         [tiles |-> drawn, isEnd |-> FALSE, startTime |-> <<>>]
    [] a.type = "SetStartTime" -> [s EXCEPT !.startTime = <<a.time>>]

\* Mutant of visit: SetStartTime builds a new State instead of copying s.
visitSetTimeFreshState(s, a, drawn) ==
  CASE a.type = "Start" -> s
    [] a.type = "Shuffle" -> [s EXCEPT !.tiles = drawn]
    [] a.type = "Move" -> [s EXCEPT !.tiles = moveTiles(s.tiles, a.index)]
    [] a.type = "Restart" ->
         [tiles |-> drawn, isEnd |-> FALSE, startTime |-> <<>>]
    [] a.type = "SetStartTime" ->
         [tiles |-> solvedTiles, isEnd |-> FALSE, startTime |-> <<a.time>>]
    [] a.type = "NearWinShuffle" -> [s EXCEPT !.tiles = drawn]

\* The branch of std::visit for the action: ns before the solved check.
\* drawn is the board the random source makes the shuffle return.
visit(s, a, drawn) ==
  CASE a.type = "Start" -> s
    [] a.type = "Shuffle" -> [s EXCEPT !.tiles = drawn]
    [] a.type = "Move" -> [s EXCEPT !.tiles = moveTiles(s.tiles, a.index)]
    [] a.type = "Restart" ->
         [tiles |-> drawn, isEnd |-> FALSE, startTime |-> NoTime]
    [] a.type = "SetStartTime" -> [s EXCEPT !.startTime = <<a.time>>]
    [] a.type = "NearWinShuffle" -> [s EXCEPT !.tiles = drawn]

\* Mutant of visitEffects: Restart pushes no effect.
visitEffectsRestartSilent(s, a) ==
  CASE a.type = "Start" ->
         IF ~has_value(s.startTime) THEN <<"StartTimer">> ELSE <<>>
    [] OTHER -> <<>>

\* Mutant of visitEffects: SetStartTime asks for the timer again.
visitEffectsTimerLoops(s, a) ==
  CASE a.type = "Start" ->
         IF ~has_value(s.startTime) THEN <<"StartTimer">> ELSE <<>>
    [] a.type = "Restart" -> <<"StartTimer">>
    [] a.type = "SetStartTime" ->
         IF ~has_value(s.startTime) THEN <<"StartTimer">> ELSE <<>>
    [] OTHER -> <<>>

\* Mutant of visitEffects: Start pushes its effect whatever the start time.
visitEffectsStartAlways(s, a) ==
  CASE a.type \in {"Start", "Restart"} -> <<"StartTimer">>
    [] OTHER -> <<>>

\* The effects the branch pushes.
visitEffects(s, a) ==
  CASE a.type = "Start" ->
         IF ~has_value(s.startTime) THEN <<StartTimer>> ELSE <<>>
    [] a.type = "Restart" -> <<StartTimer>>
    [] OTHER -> <<>>

\* Mutant of checkEnd: the flag is not recomputed.
checkEndStale(ns) ==
  [tiles |-> ns.tiles, isEnd |-> ns.isEnd,
   startTime |-> IF ns.isEnd THEN <<>> ELSE ns.startTime]

\* Mutant of checkEnd: the start time is not cleared.
checkEndKeepsTime(ns) ==
  [tiles |-> ns.tiles, isEnd |-> isSolved(ns.tiles), startTime |-> ns.startTime]

\* The last two statements of the reducer: the solved check.
checkEnd(ns) ==
  LET end == isSolved(ns.tiles)
  IN  [tiles |-> ns.tiles, isEnd |-> end,
       startTime |-> IF end THEN NoTime ELSE ns.startTime]

reducer(s, a, drawn) ==
  [state |-> checkEnd(visit(s, a, drawn)), effects |-> visitEffects(s, a)]

\* The boards the random source can hand to the reducer for an action.
draws(a) ==
  CASE a.type \in {"Shuffle", "Restart"} -> shuffledSolvable
    [] a.type = "NearWinShuffle" -> shuffledNearWin
    [] OTHER -> {solvedTiles}

\* ------------------------------------------------------------------ Store

VARIABLES
  state,      \* Store::state
  stack,      \* the calls of send in progress, innermost first; a frame holds
              \* the parameter a, the locals ns and effects, and the position
              \* of the effect runner's loop in effects (1-based)
  clock,      \* the last value GetTime() returned
  moves,      \* history: board-changing moves since the last shuffle
  followUps,  \* history: calls of send made by the effect runner within the
              \* outermost call in progress
  main,       \* where main is (at), and the locals r and c of its loop body
  loop        \* the call of shuffledSolvable that is followed turn by turn:
              \* where it is (at), the action whose branch called it (a) and
              \* its local labels

vars == <<state, stack, clock, moves, followUps, main, loop>>

\* No call of shuffledSolvable is being followed.
NoLoop == [at |-> "idle", a |-> Shuffle, labels |-> solvedTiles]

\* Mutant of initState: the state section 3 of the specification describes.
initStateSolved(t, now) ==
  [tiles |-> solvedTiles, isEnd |-> TRUE, startTime |-> <<>>]

\* The State main builds: {shuffledSolvable(), false, GetTime() - 10000}.
initState(t, now) ==
  [tiles |-> t, isEnd |-> FALSE, startTime |-> <<now - InitTimeOffset>>]

\* Store::send up to the call of the effect runner:
\* auto [ns, effects] = reducer(state, a); state = ns.
send(a, drawn) ==
  LET r == reducer(state, a, drawn)
  IN  /\ state' = r.state
      /\ stack' = <<[a |-> a, ns |-> r.state, effects |-> r.effects,
                     next |-> 1]>> \o stack

\* main: Puzzle::State init{shuffledSolvable(), false, GetTime() - 10000}.
Init ==
  /\ clock \in Times
  /\ state \in {initState(t, clock) : t \in shuffledSolvable}
  /\ stack = <<>>
  /\ moves = 0
  /\ followUps = 0
  /\ main = [at |-> "start", r |-> 0, c |-> 0]
  /\ loop = NoLoop

SendShuffle ==
  /\ stack = <<>>
  /\ \E drawn \in draws(Shuffle) : send(Shuffle, drawn)
  /\ moves' = 0
  /\ UNCHANGED <<clock, followUps, main, loop>>

SendMove ==
  /\ stack = <<>>
  /\ \E index \in MoveIndexes :
       /\ canMove(state.tiles, index) => moves < MaxMoves
       /\ send(Move(index), solvedTiles)
       /\ moves' = IF canMove(state.tiles, index) THEN moves + 1 ELSE moves
  /\ UNCHANGED <<clock, followUps, main, loop>>

SendRestart ==
  /\ stack = <<>>
  /\ \E drawn \in draws(Restart) : send(Restart, drawn)
  /\ moves' = 0
  /\ UNCHANGED <<clock, followUps, main, loop>>

SendSetStartTime ==
  /\ stack = <<>>
  /\ \E t \in Times : send(SetStartTime(t), solvedTiles)
  /\ UNCHANGED <<clock, moves, followUps, main, loop>>

SendNearWinShuffle ==
  /\ stack = <<>>
  /\ \E drawn \in draws(NearWinShuffle) : send(NearWinShuffle, drawn)
  /\ moves' = 0
  /\ UNCHANGED <<clock, followUps, main, loop>>

SendStart ==
  /\ stack = <<>>
  /\ send(Start, solvedTiles)
  /\ UNCHANGED <<clock, moves, followUps, main, loop>>

\* One turn of the effect runner's loop in the innermost send: StartTimer makes
\* it call dispatch(SetStartTime{GetTime()}), which is send again.
RunEffect ==
  /\ stack # <<>>
  /\ Head(stack).next <= Len(Head(stack).effects)
  /\ Head(stack).effects[Head(stack).next] = StartTimer
  /\ \E t \in clock .. MaxTime :
       /\ clock' = t
       /\ send(SetStartTime(t), solvedTiles)
  /\ followUps' = followUps + 1
  /\ UNCHANGED <<moves, main, loop>>

\* The effect runner's loop is over: the innermost send returns, and the loop
\* of its caller, if any, goes on to its next effect.
SendReturn ==
  /\ stack # <<>>
  /\ Head(stack).next > Len(Head(stack).effects)
  /\ stack' = IF Len(stack) = 1 THEN <<>>
              ELSE <<[stack[2] EXCEPT !.next = @ + 1]>> \o Tail(Tail(stack))
  /\ followUps' = IF Len(stack) = 1 THEN 0 ELSE followUps
  /\ UNCHANGED <<state, clock, moves, main, loop>>

Next ==
  \/ SendShuffle
  \/ SendMove
  \/ SendRestart
  \/ SendSetStartTime
  \/ SendNearWinShuffle
  \/ SendStart
  \/ RunEffect
  \/ SendReturn

Spec == Init /\ [][Next]_vars

\* ------------------------------------------------------------------- main

\* The value of moves after main sends a.
movesAfter(a) ==
  IF a.type = "Move"
  THEN IF canMove(state.tiles, a.index) THEN moves + 1 ELSE moves
  ELSE IF a.type \in {"Shuffle", "Restart", "NearWinShuffle"} THEN 0
  ELSE moves

\* A statement of main sends a: store.send(a), and main goes on to nextAt once
\* the call has returned.
mainSends(a, nextAt) ==
  /\ a.type = "Move" /\ canMove(state.tiles, a.index) => moves < MaxMoves
  /\ \E drawn \in draws(a) : send(a, drawn)
  /\ moves' = movesAfter(a)
  /\ main' = [main EXCEPT !.at = nextAt]
  /\ UNCHANGED <<clock, followUps, loop>>

\* The condition of an if statement of main is false: nothing is sent.
mainSkips(nextAt) ==
  /\ main' = [main EXCEPT !.at = nextAt]
  /\ UNCHANGED <<state, stack, clock, moves, followUps, loop>>

\* if (pressed && cond) store.send(a): the input is pressed in this frame or
\* it is not.
mainIf(cond, a, nextAt) ==
  \E pressed \in BOOLEAN :
    IF pressed /\ cond THEN mainSends(a, nextAt) ELSE mainSkips(nextAt)

\* store.send(Puzzle::Start{}) before the loop.
MainStart ==
  /\ main.at = "start"
  /\ stack = <<>>
  /\ mainSends(Start, "frame")

\* while (!WindowShouldClose())
FrameTop ==
  /\ main.at = "frame"
  /\ stack = <<>>
  /\ \E close \in BOOLEAN : mainSkips(IF close THEN "closed" ELSE "keyR")

\* if (IsKeyPressed(KEY_R)) store.send(Puzzle::Restart{});
KeyR ==
  /\ main.at = "keyR"
  /\ stack = <<>>
  /\ mainIf(TRUE, Restart, "isEnd")

\* if (!s.isEnd) ... else ...: s refers to store.state, read here once for
\* the whole frame.
TestIsEnd ==
  /\ main.at = "isEnd"
  /\ stack = <<>>
  /\ mainSkips(IF ~state.isEnd THEN "keyS" ELSE "clickEnd")

\* if (IsKeyPressed(KEY_S)) store.send(Puzzle::Shuffle{});
KeyS ==
  /\ main.at = "keyS"
  /\ stack = <<>>
  /\ mainIf(TRUE, Shuffle, "click")

\* The left button: pressed on the rectangle of cell hit, or not pressed on
\* any rectangle (hit = -1).
Click ==
  /\ main.at = "click"
  /\ stack = <<>>
  /\ \E hit \in -1 .. size(state.tiles) - 1 :
       IF hit # -1 THEN mainSends(Move(hit), "arrows") ELSE mainSkips("arrows")

\* const auto empty = findEmpty(s.tiles); r and c are computed from it once.
Arrows ==
  /\ main.at = "arrows"
  /\ stack = <<>>
  /\ LET e == findEmpty(state.tiles)
     IN  main' = IF e # -1
                 THEN [at |-> "keyUp", r |-> e \div grid, c |-> e % grid]
                 ELSE [main EXCEPT !.at = "keyW"]
  /\ UNCHANGED <<state, stack, clock, moves, followUps, loop>>

KeyUp ==
  /\ main.at = "keyUp"
  /\ stack = <<>>
  /\ mainIf(main.r < grid - 1, Move((main.r + 1) * grid + main.c), "keyDown")

KeyDown ==
  /\ main.at = "keyDown"
  /\ stack = <<>>
  /\ mainIf(main.r > 0, Move((main.r - 1) * grid + main.c), "keyLeft")

KeyLeft ==
  /\ main.at = "keyLeft"
  /\ stack = <<>>
  /\ mainIf(main.c < grid - 1, Move(main.r * grid + (main.c + 1)), "keyRight")

KeyRight ==
  /\ main.at = "keyRight"
  /\ stack = <<>>
  /\ mainIf(main.c > 0, Move(main.r * grid + (main.c - 1)), "keyW")

\* KEY_W: sends NearWinShuffle when the press comes within the threshold of
\* the press before it.
KeyW ==
  /\ main.at = "keyW"
  /\ stack = <<>>
  /\ \E within \in BOOLEAN : mainIf(within, NearWinShuffle, "draw")

\* The else branch: if (IsMouseButtonPressed(...)) store.send(Restart{}).
ClickEnd ==
  /\ main.at = "clickEnd"
  /\ stack = <<>>
  /\ mainIf(TRUE, Restart, "draw")

\* BeginDrawing() .. EndDrawing(): the frame is over, r and c go out of scope.
Draw ==
  /\ main.at = "draw"
  /\ stack = <<>>
  /\ main' = [at |-> "frame", r |-> 0, c |-> 0]
  /\ UNCHANGED <<state, stack, clock, moves, followUps, loop>>

MainNext ==
  \/ MainStart
  \/ FrameTop
  \/ KeyR
  \/ TestIsEnd
  \/ KeyS
  \/ Click
  \/ Arrows
  \/ KeyUp
  \/ KeyDown
  \/ KeyLeft
  \/ KeyRight
  \/ KeyW
  \/ ClickEnd
  \/ Draw
  \/ RunEffect
  \/ SendReturn

\* The program as main runs it.
MainSpec == Init /\ [][MainNext]_vars

\* ------------------------------------------------- shuffledSolvable, by turns

\* The reducer's Shuffle or Restart branch calls shuffledSolvable():
\* auto labels = solvedTiles().
CallShuffledSolvable ==
  /\ stack = <<>>
  /\ loop.at = "idle"
  /\ \E a \in {Shuffle, Restart} :
       loop' = [at |-> "shuffle", a |-> a, labels |-> solvedTiles]
  /\ UNCHANGED <<state, stack, clock, moves, followUps, main>>

\* do { shuffleLabels(labels); ...
ShuffleLabelsStep ==
  /\ loop.at = "shuffle"
  /\ \E l \in shuffleLabels(loop.labels) :
       loop' = [loop EXCEPT !.at = "test", !.labels = l]
  /\ UNCHANGED <<state, stack, clock, moves, followUps, main>>

\* The condition of the do-while, shuffleAgain, tabulated over the
\* arrangements shuffleLabels leaves in labels: those it sends round again and
\* those it lets through.
rejected == {l \in shuffleLabels(solvedTiles) : shuffleAgain(l)}
accepted == {l \in shuffleLabels(solvedTiles) : ~shuffleAgain(l)}

\* Mutant of LoopTest: the condition reads a fresh solvedTiles(), never labels.
LoopTestStale ==
  /\ loop.at = "test"
  /\ IF solvedTiles \in rejected
     THEN /\ loop' = [loop EXCEPT !.at = "shuffle"]
          /\ UNCHANGED <<state, stack, moves>>
     ELSE /\ send(loop.a, loop.labels)
          /\ moves' = 0
          /\ loop' = NoLoop
  /\ UNCHANGED <<clock, followUps, main>>

\* ... } while (!isSolvable(labels) || isSolved(labels)); return labels; and
\* the reducer and send go on with the board returned.
LoopTest ==
  /\ loop.at = "test"
  /\ IF loop.labels \in rejected
     THEN /\ loop' = [loop EXCEPT !.at = "shuffle"]
          /\ UNCHANGED <<state, stack, moves>>
     ELSE /\ send(loop.a, loop.labels)
          /\ moves' = 0
          /\ loop' = NoLoop
  /\ UNCHANGED <<clock, followUps, main>>

LoopNext ==
  \/ CallShuffledSolvable
  \/ ShuffleLabelsStep
  \/ LoopTest
  \/ RunEffect
  \/ SendReturn

\* Shuffle and Restart with the loop of shuffledSolvable followed turn by
\* turn.  Fairness: a call in progress takes its next step, and a shuffle that
\* is asked for again and again does not for ever avoid the permutations that
\* are solvable and not solved.  A shuffle that produces each permutation
\* again and again satisfies this if there is such a permutation at all.
LoopSpec ==
  /\ Init
  /\ [][LoopNext]_vars
  /\ WF_vars(LoopTest)
  /\ WF_vars(RunEffect)
  /\ WF_vars(SendReturn)
  /\ SF_vars(ShuffleLabelsStep /\ loop'.labels \in accepted)

\* ------------------------------------------------------------------ claims

\* The frames of the calls of send in progress.
Frames == {stack[k] : k \in 1 .. Len(stack)}

\* The number a label shows (0 for the empty label), read digit by digit.
LabelNumber(t) ==
  IF Len(t) = 0 THEN 0 ELSE IF Len(t) = 1 THEN t[1] ELSE 10 * t[1] + t[2]

\* The board is the solved one: cell i shows i + 1 and the last cell is empty.
SolvedBoard(t) ==
  /\ \A i \in 0 .. tileCount - 2 : Len(t[i]) > 0 /\ LabelNumber(t[i]) = i + 1
  /\ Len(t[tileCount - 1]) = 0

\* One empty label and each of the labels 1 .. tileCount-1 once.
ValidBoard(t) ==
  /\ DOMAIN t = 0 .. tileCount - 1
  /\ Cardinality({i \in DOMAIN t : t[i] = <<>>}) = 1
  /\ \A n \in 1 .. tileCount - 1 :
       Cardinality({i \in DOMAIN t : t[i] # <<>> /\ LabelNumber(t[i]) = n}) = 1
  /\ \A i \in DOMAIN t : t[i] = <<>> \/ t[i] = to_string(LabelNumber(t[i]))

\* The cells next to cell e on the grid: left and right within the row, above
\* and below within the column.
Neighbours(e) ==
  {i \in 0 .. tileCount - 1 :
     \/ i = e - grid
     \/ i = e + grid
     \/ i = e - 1 /\ e % grid # 0
     \/ i = e + 1 /\ e % grid # grid - 1}

\* The cell that holds the empty label.
EmptyCell(t) == CHOOSE i \in DOMAIN t : t[i] = <<>>

\* A step in which send(a) is called from outside.
Sent(a) == stack = <<>> /\ stack' # <<>> /\ Head(stack').a = a

\* C1: in every state of the Store, and in every state a reducer call
\* returned, tiles has tileCount entries, exactly one of them empty, and the
\* others are the labels 1 .. tileCount-1, each once.
C1_TilesArePermutation ==
  /\ ValidBoard(state.tiles)
  /\ \A f \in Frames : ValidBoard(f.ns.tiles)

\* C1 witness: two moves were made since the last shuffle, the second just now.
C1_Witness ==
  /\ stack # <<>>
  /\ Head(stack).a.type = "Move"
  /\ moves = 2
  /\ EmptyCell(state.tiles) = Head(stack).a.index

\* C2: the solved flag of the state, and of every state a reducer call
\* returned, is true exactly when the board is the solved one.
C2_FlagAgreesWithBoard ==
  /\ state.isEnd <=> SolvedBoard(state.tiles)
  /\ \A f \in Frames : f.ns.isEnd <=> SolvedBoard(f.ns.tiles)

\* C2 witness: a Move has just solved the board and the flag is set.
C2_Witness ==
  /\ stack # <<>>
  /\ Head(stack).a.type = "Move"
  /\ SolvedBoard(state.tiles)
  /\ state.isEnd

\* C3: a solved board has no start time, in the state of the Store and in
\* every state a reducer call returned.
C3_SolvedHasNoTimer ==
  /\ SolvedBoard(state.tiles) => state.startTime = NoTime
  /\ \A f \in Frames : SolvedBoard(f.ns.tiles) => f.ns.startTime = NoTime

\* C3 witness: Start on a solved board had its timer effect run, and the
\* SetStartTime it sent left no start time.
C3_Witness ==
  /\ Len(stack) = 2
  /\ stack[1].a.type = "SetStartTime"
  /\ stack[2].a = Start
  /\ SolvedBoard(state.tiles)
  /\ state.startTime = NoTime

\* C4: the tiles a Shuffle or a Restart leaves are solvable and not solved.
C4_ShuffleSolvableNotSolved ==
  \A f \in Frames :
    f.a.type \in {"Shuffle", "Restart"} =>
      /\ isSolvable(f.ns.tiles)
      /\ ~isSolved(f.ns.tiles)
      /\ state.tiles = f.ns.tiles

\* C4 witness: a Shuffle has just replaced the board.
C4_Witness ==
  /\ stack # <<>>
  /\ Head(stack).a = Shuffle
  /\ isSolvable(state.tiles)
  /\ ~isSolved(state.tiles)

\* C5: a Move whose index is out of range, or is not a neighbour of the empty
\* cell (the empty cell itself included), leaves the tiles as they were and
\* returns no effect; so does any Move on a board that has no empty cell.
C5_IllegalMoveIsNoOp ==
  [][\A index \in MoveIndexes :
       LET full == [state.tiles EXCEPT ![EmptyCell(state.tiles)] =
                      to_string(tileCount)]
           r    == reducer([state EXCEPT !.tiles = full], Move(index), solvedTiles)
       IN  /\ r.state.tiles = full
           /\ r.effects = <<>>
           /\ (Sent(Move(index)) /\ index \notin Neighbours(EmptyCell(state.tiles)))
                => /\ state'.tiles = state.tiles
                   /\ Head(stack').effects = <<>>]_vars

\* C5 witness: a Move to a cell of the board that is not a neighbour of the
\* empty cell has been applied.
C5_Witness ==
  /\ stack # <<>>
  /\ Head(stack).a.type = "Move"
  /\ Head(stack).a.index \in 0 .. tileCount - 1
  /\ Head(stack).a.index \notin Neighbours(EmptyCell(state.tiles))
  /\ Head(stack).a.index # EmptyCell(state.tiles)

C7_NearWinOneMoveFromSolved ==
  \A f \in Frames :
    f.a = NearWinShuffle =>
      LET t      == f.ns.tiles
          after(i) == reducer(f.ns, Move(i), solvedTiles).state
          wins   == {i \in MoveIndexes : SolvedBoard(after(i).tiles)}
      IN  /\ state.tiles = t
          /\ Cardinality({i \in DOMAIN t :
                            t[i] # <<>> /\ LabelNumber(t[i]) # i + 1}) = 1
          /\ ~SolvedBoard(t)
          /\ ~f.ns.isEnd
          /\ Cardinality(wins) = 1
          /\ \A i \in wins : after(i).isEnd /\ after(i).startTime = NoTime

\* C7 witness: a NearWinShuffle has been applied while the timer ran.
C7_Witness ==
  /\ stack # <<>>
  /\ Head(stack).a = NearWinShuffle
  /\ has_value(state.startTime)

\* C8: the reducer's result for Restart has no start time and the one effect
\* StartTimer; when send(Restart) is about to return, the state holds the
\* shuffled tiles the reducer returned and the start time is the time the
\* clock gave to the effect.
C8_RestartRestartsTimer ==
  \A f \in Frames :
    f.a = Restart =>
      /\ f.ns.startTime = NoTime
      /\ f.effects = <<StartTimer>>
      /\ f.ns.tiles \in shuffledSolvable
      /\ (f = Head(stack) /\ f.next = 1) => state = f.ns
      /\ (f = Head(stack) /\ f.next > Len(f.effects)) =>
           /\ state.tiles = f.ns.tiles
           /\ state.startTime = <<clock>>
           /\ followUps = 1

\* C8 witness: send(Restart) is about to return, its effect done.
C8_Witness ==
  /\ Len(stack) = 1
  /\ Head(stack).a = Restart
  /\ Head(stack).next = 2
  /\ state.startTime = <<clock>>

\* What the code's scheduling gives: a call in progress runs on.
FairSpec == Spec /\ WF_vars(RunEffect) /\ WF_vars(SendReturn)

\* C9: at most two calls of send are ever in progress, the effect runner
\* calls send at most once within one call from outside, a SetStartTime
\* returns no effect, and every call from outside returns.
C9_SendTerminates ==
  /\ [](/\ Len(stack) <= 2
        /\ followUps <= 1
        /\ \A f \in Frames : f.a.type = "SetStartTime" => f.effects = <<>>
        /\ \A k \in 2 .. Len(stack) : stack[k].a.type # "SetStartTime")
  /\ (stack # <<>>) ~> (stack = <<>>)

\* C9 witness: the effect runner's send is in progress inside another send.
C9_Witness ==
  /\ Len(stack) = 2
  /\ followUps = 1
  /\ stack[1].a.type = "SetStartTime"

\* C10: Start changes neither tiles nor startTime, and returns the one effect
\* StartTimer when there is no start time and none when there is one; with a
\* start time the whole state stays as it was.
C10_StartFrame ==
  [][Sent(Start) =>
       /\ state'.tiles = state.tiles
       /\ state'.startTime = state.startTime
       /\ Head(stack').effects =
            IF state.startTime = NoTime THEN <<StartTimer>> ELSE <<>>
       /\ state.startTime # NoTime => state' = state]_vars

\* C10 witness: Start was sent while the timer ran, and returned no effect.
C10_Witness ==
  /\ stack # <<>>
  /\ Head(stack).a = Start
  /\ Head(stack).effects = <<>>
  /\ has_value(state.startTime)

\* A step in which a reducer call is made for a, from outside or by the
\* effect runner.
Reduced(a) == Len(stack') = Len(stack) + 1 /\ Head(stack').a = a

\* C11 as stated: Shuffle, Move and NearWinShuffle leave startTime as it was.
C11_Original ==
  [][\A a \in {Shuffle, NearWinShuffle} \cup {Move(i) : i \in MoveIndexes} :
       Reduced(a) => state'.startTime = state.startTime]_vars

\* C11 as amended: Shuffle, Move and NearWinShuffle return no effect and leave
\* startTime as it was, unless the board they leave is solved: then there is
\* no start time.
C11_TimerKeptUnlessSolved ==
  [][\A a \in {Shuffle, NearWinShuffle} \cup {Move(i) : i \in MoveIndexes} :
       Reduced(a) =>
         /\ Head(stack').effects = <<>>
         /\ state'.startTime =
              IF SolvedBoard(state'.tiles) THEN NoTime ELSE state.startTime]_vars

\* C11 witness: a Move has changed the board and the timer still runs.
C11_Witness ==
  /\ stack # <<>>
  /\ Head(stack).a.type = "Move"
  /\ EmptyCell(state.tiles) = Head(stack).a.index
  /\ moves = 1
  /\ has_value(state.startTime)

\* C12 as stated: Start, Restart and SetStartTime leave tiles as they were.
C12_Original ==
  [][\A a \in {Start, Restart} \cup {SetStartTime(t) : t \in Times} :
       Reduced(a) => state'.tiles = state.tiles]_vars

\* C12 as amended: Start and SetStartTime leave tiles as they were; Restart
\* replaces them by a board of shuffledSolvable.
C12_StartAndSetTimeKeepTiles ==
  [][/\ \A a \in {Start} \cup {SetStartTime(t) : t \in Times} :
          Reduced(a) => state'.tiles = state.tiles
     /\ Reduced(Restart) => state'.tiles \in shuffledSolvable]_vars

\* C12 witness: the effect runner's SetStartTime has been applied to a board
\* that a move had changed.
C12_Witness ==
  /\ Len(stack) = 2
  /\ stack[1].a.type = "SetStartTime"
  /\ moves = 1
  /\ state.tiles \notin shuffledSolvable

\* The inversions among the numbers a board shows, read row by row.
Inversions(t) ==
  Cardinality({p \in (0 .. tileCount - 1) \X (0 .. tileCount - 1) :
                 /\ p[1] < p[2]
                 /\ t[p[1]] # <<>>
                 /\ t[p[2]] # <<>>
                 /\ LabelNumber(t[p[1]]) > LabelNumber(t[p[2]])})

\* The row of the empty cell, counted from the bottom, the bottom row being 1.
EmptyRowFromBottom(t) == grid - (EmptyCell(t) \div grid)

\* C14: every board the Store holds satisfies isSolvable; a legal Move within
\* a column changes the parity of the inversions and of the empty cell's row,
\* a legal Move within a row changes neither, and both leave a board that
\* satisfies isSolvable.
C14_PlayStaysSolvable ==
  /\ [](isSolvable(state.tiles))
  /\ [][(stack = <<>> /\ stack' # <<>> /\ Head(stack').a.type = "Move"
           /\ Head(stack').a.index \in Neighbours(EmptyCell(state.tiles))) =>
          LET i == Head(stack').a.index
              e == EmptyCell(state.tiles)
              vertical == i % grid = e % grid
          IN  /\ (Inversions(state'.tiles) % 2 # Inversions(state.tiles) % 2)
                   <=> vertical
              /\ (EmptyRowFromBottom(state'.tiles) % 2
                    # EmptyRowFromBottom(state.tiles) % 2) <=> vertical
              /\ isSolvable(state'.tiles)]_vars

\* C14 witness: two moves were made, the last within a column, and the empty
\* cell is in an even row from the bottom.
C14_Witness ==
  /\ stack # <<>>
  /\ Head(stack).a.type = "Move"
  /\ EmptyCell(state.tiles) = Head(stack).a.index
  /\ moves = 2
  /\ EmptyRowFromBottom(state.tiles) % 2 = 0
  /\ isSolvable(state.tiles)

\* C15: a Move to a neighbour of the empty cell e puts the empty label at the
\* index and the label that was there at e, and changes no other cell; a Move
\* to any other index changes nothing.
C15_LegalMoveExchanges ==
  [][(stack = <<>> /\ stack' # <<>> /\ Head(stack').a.type = "Move") =>
       LET i == Head(stack').a.index
           e == EmptyCell(state.tiles)
       IN  IF i \in Neighbours(e)
           THEN /\ state'.tiles[i] = <<>>
                /\ state'.tiles[e] = state.tiles[i]
                /\ \A k \in (0 .. tileCount - 1) \ {i, e} :
                     state'.tiles[k] = state.tiles[k]
           ELSE state'.tiles = state.tiles]_vars

\* C15 witness: a Move has put the empty cell in the row above the bottom one.
C15_Witness ==
  /\ stack # <<>>
  /\ Head(stack).a.type = "Move"
  /\ EmptyCell(state.tiles) = Head(stack).a.index
  /\ Head(stack).a.index \div grid = grid - 2
  /\ moves = 1

\* A board and the boards that differ from it by the exchange of two cells
\* that follow each other in reading order.
Varied(t) == {t} \cup {[t EXCEPT ![i] = t[i + 1], ![i + 1] = t[i]] :
                         i \in 0 .. tileCount - 2}

\* The solved board is classified solvable; with two tiles that follow each
\* other exchanged it has one inversion and is classified unsolvable.
C16_SolvedAndSwaps ==
  /\ isSolvable(solvedTiles)
  /\ \A i \in 0 .. tileCount - 3 :
       LET b == [solvedTiles EXCEPT ![i] = solvedTiles[i + 1],
                                    ![i + 1] = solvedTiles[i]]
       IN  Inversions(b) = 1 /\ EmptyRowFromBottom(b) = 1 /\ ~isSolvable(b)

\* C16: isSolvable holds of the solved board and of none of the boards that
\* exchange two tiles next to each other on it; on every board the Store
\* holds between calls, and on its variations, isSolvable holds exactly when
\* (the empty cell's row from the bottom is even) = (the inversions are odd).
C16_SolvableIsParityRule ==
  /\ C16_SolvedAndSwaps
  /\ stack = <<>> =>
       \A b \in Varied(state.tiles) :
         isSolvable(b) <=>
           ((EmptyRowFromBottom(b) % 2 = 0) = (Inversions(b) % 2 = 1))

\* C16 witness: between calls the Store holds a shuffled board whose empty
\* cell is in the second row from the bottom.
C16_Witness ==
  /\ stack = <<>>
  /\ moves = 0
  /\ EmptyRowFromBottom(state.tiles) = 2
  /\ isSolvable(state.tiles)

\* isSolved holds of the solved board and of none of the boards that exchange
\* two of its tiles.
C19_SolvedAndTranspositions ==
  /\ isSolved(solvedTiles)
  /\ \A i, j \in 0 .. tileCount - 2 :
       i < j => ~isSolved([solvedTiles EXCEPT ![i] = solvedTiles[j],
                                              ![j] = solvedTiles[i]])

\* C19: isSolved holds of the solved board and of no board that exchanges two
\* of its tiles; of the boards the Store holds between calls, and their
\* variations, it holds of the solved board alone.
C19_OneSolvedBoard ==
  /\ C19_SolvedAndTranspositions
  /\ stack = <<>> =>
       \A b \in Varied(state.tiles) : isSolved(b) <=> b = solvedTiles

\* C19 witness: between calls the Store holds the solved board.
C19_Witness ==
  /\ stack = <<>>
  /\ ValidBoard(state.tiles)
  /\ isSolved(state.tiles)

\* ----------------------------------------------------------------- C13

\* C13 as the specification states it: the State the Store starts with is the
\* solved board with no timer.
C13_Original ==
  main.at = "start" =>
    /\ isSolved(state.tiles)
    /\ state.startTime = NoTime

\* C13, amended: the State the Store starts with is a board shuffledSolvable
\* returned (solvable, not solved) with isEnd false and a start time present,
\* the clock's reading less InitTimeOffset; and the Start that main sends
\* first, finding a start time, changes nothing and asks for no effect.
C13_StartsShuffledWithTimer ==
  /\ main.at = "start" =>
       /\ state.tiles \in shuffledSolvable
       /\ isSolvable(state.tiles)
       /\ ~isSolved(state.tiles)
       /\ ~state.isEnd
       /\ state.startTime = <<clock - InitTimeOffset>>
       /\ stack = <<>>
  /\ \A f \in Frames : f.a = Start =>
       /\ f.effects = <<>>
       /\ f.ns = state
       /\ state.startTime = <<clock - InitTimeOffset>>

\* Reached: main has sent Start on the State it built, and the call is in
\* progress on an unsolved board whose start time is present.
C13_Witness ==
  /\ main.at = "frame"
  /\ stack # <<>>
  /\ Head(stack).a = Start
  /\ ~isSolved(state.tiles)
  /\ has_value(state.startTime)

\* ----------------------------------------------------------------- C18

\* C18: at the end of every frame of main's loop, a board that is not solved
\* has a start time, whatever inputs were pressed within the frame.
C18_ClockRunsAtEndOfFrame ==
  (main.at = "draw" /\ stack = <<>>) =>
    (~SolvedBoard(state.tiles) => has_value(state.startTime))

\* ----------------------------------------------------------------- C17

\* C17: a call of shuffledSolvable() in progress eventually returns, and the
\* Shuffle or Restart that made it eventually completes, provided the shuffle
\* eventually produces each permutation (the fairness of LoopSpec).
C17_ShuffledSolvableTerminates ==
  (loop.at # "idle") ~> (loop.at = "idle" /\ stack = <<>>)

\* Reached: the loop has rejected an arrangement (unsolvable, or the solved
\* one) and is about to shuffle it again.
C17_Witness ==
  /\ loop.at = "shuffle"
  /\ loop.labels # solvedTiles
  /\ shuffleAgain(loop.labels)

====
